---- MODULE Spec2Model ----
(***************************************************************************)
(* The booking loop of Hybrid-Worker's auto_book example: book_week,        *)
(* book_single_day and book_desk of Python/examples/auto_book.py, driving   *)
(* Condeco.searchDeskByFeatures and Condeco.bookDesk.  The remote service   *)
(* is the environment: each call either returns a response, ends in a       *)
(* requests ConnectionError, or yields a body the script cannot read.       *)
(***************************************************************************)
EXTENDS Integers, Sequences, FiniteSets, TLC

\* ------------------------------------------------------------ constants

\* for _ in range(120)
Budget == 120

\* response_json['CallResponse']['ResponseCode'] == 100
SuccessCode == 100

\* Condeco.BOOKING_TYPE['None'] and Condeco.BOOKING_TYPE['AllDay']
BookingTypeNone == 0
BookingTypeAllDay == 3

\* time.sleep(1)
SleepSeconds == 1

\* ------------------------------------------------------------ bounds

\* Longest list of dates handed to book_week when the service is unconstrained.
MaxDates == 2
\* Longest SearchedDesks list a search response carries.
MaxDesks == 2
\* Attempts kept in the attempt log before it is folded away.
MaxLog == 3
\* Longest list of dates handed to book_week against the always-bookable mock.
MaxLong == 121

\* Redirects followed within one call of the client.
MaxHops == 1

\* Days after the first on which main is run.
MaxToday == 399

\* Bookings per date the service is seen to accept before the count stops.
MaxAccepted == 2

\* Latest time of the clock and of the time claims of a token.
MaxTime == 2

\* ------------------------------------------------------------ data

\* A datetime.date: year, month, day.
Date(y, m, d) == [year |-> y, month |-> m, day |-> d]

\* candidate_date before the first pop (the name is not bound yet).
NoDate == Date(0, 0, 0)

\* The k-th target date of an input list; the first two are the dates of the
\* specification's example, [2024-03-08, 2024-03-04].
DateOf(k) ==
    IF k = 1 THEN Date(2024, 3, 8)
    ELSE IF k = 2 THEN Date(2024, 3, 4)
    ELSE Date(2024, 4 + ((k - 3) \div 28), 1 + ((k - 3) % 28))

\* A list of n distinct target dates.
InputList(n) == [k \in 1..n |-> DateOf(k)]

\* strftime('%m/%d/%Y'): the month before the day.
strftimeMonthFirst(date) == <<date.month, date.day, date.year>>

\* candidate_date.strftime('%d/%m/%Y'): day, month, year in that order.
strftime(date) == <<date.day, date.month, date.year>>

\* The set of elements of a list.
Range(s) == {s[k] : k \in DOMAIN s}

\* One entry of SearchedDesks.
Desk(id, bookable) == [DeskID |-> id, CanBeBooked |-> bookable]

\* The SearchedDesks lists a search response can carry: up to MaxDesks desks,
\* any pattern of CanBeBooked flags.
SearchedDesksLists ==
    UNION {{[k \in 1..n |-> Desk(k, flags[k])] : flags \in [1..n -> BOOLEAN]} : n \in 0..MaxDesks}

\* The SearchedDesks lists of the mock that always returns one bookable desk.
MockDesksLists == {<<Desk(1, TRUE)>>}

\* CallResponse.ResponseCode values the service answers with.
ResponseCodes == {SuccessCode - 1, SuccessCode, SuccessCode + 1}

\* Response codes of the mock whose calls always succeed.
MockCodes == {SuccessCode}

\* The lines the script prints.
BookingForLine == "Booking for"
AppFailureLine == "Failure due to ResponseMessage"
ConnFailureLine == "Failure due to repeated connection errors"
AttemptingLine == "Attempting to book"
BookedLine == "Booked"
FinishedOkLine == "Finished, booking completed successfully"
FinishedFailLine == "Finished, unable to book one or more spaces"

VARIABLES
    input,            \* the list book_week was called with
    candidate_dates,  \* the list, as book_week mutates it
    i,                \* values of range(120) consumed so far
    pc,               \* position of the script
    candidate_date,   \* the date popped last
    desks,            \* SearchedDesks entries the for loop has not reached yet
    searched,         \* SearchedDesks of the search answered since the latest pop
    inflight,         \* the request the session is waiting on (at most one)
    result,           \* what book_week returned
    out,              \* lines printed since the latest pop
    confirmed,        \* dates for which book_desk returned True
    outcome,          \* how the latest attempt ended
    slept,            \* seconds slept since the latest attempt ended
    sleepsSince,      \* per date: sleeps since its latest failed attempt ended, -1 if none
    failsSince,       \* per date: falsy book_single_day results since then, that one included
    reply,            \* how the latest call of the session ended
    acknowledged,     \* startDate of every bookDesk answered with ResponseCode 100
    everBookable,     \* some search response carried a bookable desk
    log,              \* the first attempts, in order, with how each ended
    session,          \* Condeco.session: its cookie jar
    httpRequest,      \* the latest HTTP request of the session and how far it got
    jwt,              \* the latest decode_jwt call: its arguments, the clock, its result
    accepted,         \* per date: bookDesk requests the service has accepted (capped)
    issued,           \* the methods of Condeco called so far
    HEADERS,          \* Condeco.HEADERS
    today,            \* datetime.date.today() as main reads it
    configuration     \* configuration.json: its authentication entries

vars == <<input, candidate_dates, i, pc, candidate_date, desks, searched, inflight, result,
          out, confirmed, outcome, slept, sleepsSince, failsSince, reply, acknowledged,
          everBookable, log, session, httpRequest, jwt, accepted, issued, HEADERS, today,
          configuration>>

\* ------------------------------------------------------------ history

\* How a call of the session ended: a response with its ResponseCode, a
\* ConnectionError, or a body the script cannot read.
Reply(request, kind, code) ==
    [op |-> request.op, startDate |-> request.startDate, kind |-> kind, code |-> code]

NoReply == [op |-> "none", startDate |-> <<0, 0, 0>>, kind |-> "none", code |-> 0]

Overflow == <<[date |-> NoDate, outcome |-> "overflow"]>>

\* The attempt log with one more attempt; folded to Overflow past MaxLog.
Logged(date, how) ==
    IF log = Overflow \/ Len(log) >= MaxLog THEN Overflow
    ELSE Append(log, [date |-> date, outcome |-> how])

\* No request has been sent through the session yet (previous: the access
\* token of the call before the latest).
NoRequest == [method |-> "none", status |-> "none", retries |-> 0, reads |-> 0,
              hops |-> 0, jar |-> {}, cookie |-> {}, access_token |-> "", headers |-> {},
              previous |-> ""]

\* The claims a token can carry: the eight decode_jwt requires, and iat.
ClaimNames == {"id", "username", "passwordless", "role", "iss", "aud", "exp", "nbf", "iat"}

\* A token: whether its signature is good, the claims its payload has, and
\* their values (iatIsInt: the iat claim is a number).
Token(sig, keys, iss, aud, exp, nbf, iat, iatIsInt) ==
    [sig |-> sig, keys |-> keys, iss |-> iss, aud |-> aud, exp |-> exp, nbf |-> nbf,
     iat |-> iat, iatIsInt |-> iatIsInt]

\* What decode_jwt gives: the payload, or the exception jwt.decode raises.
Decoded(error, payload) == [error |-> error, payload |-> payload]

\* The payload of a token.
Payload(token) == [c \in token.keys |->
                     CASE c = "iss" -> token.iss
                       [] c = "aud" -> token.aud
                       [] c = "exp" -> token.exp
                       [] c = "nbf" -> token.nbf
                       [] c = "iat" -> IF token.iatIsInt THEN token.iat ELSE "NaN"
                       [] OTHER -> "value"]

\* decode_jwt has not been called yet.
NoJwt == [token |-> Token("valid", {}, "", "", 0, 0, 0, TRUE), audience |-> "", now |-> 0,
          result |-> Decoded("not called", <<>>)]

\* HEADERS = {'User-Agent': 'okhttp/4.10.0', 'Accept': 'application/json'}
ClassHeaders == {<<"User-Agent", "okhttp/4.10.0">>, <<"Accept", "application/json">>}

\* configuration['authentication']: the token (a list with the token, empty
\* if the entry is missing or empty), the validation key and the e-mail.
Configuration(token, validation_key, email) ==
    [token |-> token, validation_key |-> validation_key, email |-> email]

\* book_week called without main having read a configuration.
NoConfiguration == Configuration(<<>>, "", "")

\* The bookings the service holds for a date after it accepts one more.
Served(date) ==
    [accepted EXCEPT ![date] = IF @ < MaxAccepted THEN @ + 1 ELSE @]

\* ------------------------------------------------------------ initial state

InitWith(dates) ==
    /\ input = dates
    /\ candidate_dates = dates
    /\ i = 0
    /\ pc = "for"
    /\ candidate_date = NoDate
    /\ desks = <<>>
    /\ searched = <<>>
    /\ inflight = <<>>
    /\ result = "None"
    /\ out = <<>>
    /\ confirmed = {}
    /\ outcome = "none"
    /\ slept = 0
    /\ sleepsSince = [d \in Range(dates) |-> -1]
    /\ failsSince = [d \in Range(dates) |-> -1]
    /\ reply = NoReply
    /\ acknowledged = {}
    /\ everBookable = FALSE
    /\ log = <<>>
    /\ session = [cookies |-> {}]
    /\ httpRequest = NoRequest
    /\ jwt = NoJwt
    /\ accepted = [d \in Range(dates) |-> 0]
    /\ issued = {}
    /\ HEADERS = ClassHeaders
    /\ today = NoDate
    /\ configuration = NoConfiguration

Init == \E n \in 0..MaxDates : InitWith(InputList(n))

\* ------------------------------------------------------------ book_week

\* if not candidate_dates: return True
ReturnTrue ==
    /\ pc = "for"
    /\ i < Budget
    /\ candidate_dates = <<>>
    /\ pc' = "done"
    /\ result' = "True"
    /\ UNCHANGED <<session, httpRequest, jwt, accepted, issued, HEADERS, today, configuration, input, searched, candidate_dates, i, candidate_date, desks, inflight, out,
                   confirmed, outcome, slept, sleepsSince, failsSince, reply,
                   acknowledged, everBookable, log>>

\* range(120) is exhausted: return False
ReturnFalse ==
    /\ pc = "for"
    /\ i = Budget
    /\ pc' = "done"
    /\ result' = "False"
    /\ UNCHANGED <<session, httpRequest, jwt, accepted, issued, HEADERS, today, configuration, input, searched, candidate_dates, i, candidate_date, desks, inflight, out,
                   confirmed, outcome, slept, sleepsSince, failsSince, reply,
                   acknowledged, everBookable, log>>

\* candidate_dates.pop(): the last pending date and the rest of the list.
PopLast(dates) == <<dates[Len(dates)], SubSeq(dates, 1, Len(dates) - 1)>>

\* candidate_dates.pop(0): the first pending date and the rest of the list.
PopFirst(dates) == <<Head(dates), Tail(dates)>>

\* candidate_date = candidate_dates.pop(0), and the "Booking for" line
Pop ==
    /\ pc = "for"
    /\ i < Budget
    /\ candidate_dates # <<>>
    /\ i' = i + 1
    /\ candidate_date' = PopFirst(candidate_dates)[1]
    /\ candidate_dates' = PopFirst(candidate_dates)[2]
    /\ out' = <<BookingForLine>>
    /\ searched' = <<>>
    /\ pc' = "book_single_day"
    /\ UNCHANGED <<session, httpRequest, jwt, accepted, issued, HEADERS, today, configuration, input, desks, inflight, result, confirmed, outcome, slept,
                   sleepsSince, failsSince, reply, acknowledged, everBookable, log>>

\* book_week appending the date after a booking as well.
BookedRequeued ==
    /\ pc' = "for"
    /\ candidate_dates' = Append(candidate_dates, candidate_date)
    /\ confirmed' = confirmed \cup {candidate_date}
    /\ outcome' = "booked"
    /\ slept' = 0
    /\ sleepsSince' = [sleepsSince EXCEPT ![candidate_date] = -1]
    /\ failsSince' = [failsSince EXCEPT ![candidate_date] = -1]
    /\ log' = Logged(candidate_date, "booked")

\* book_single_day returned True: nothing is appended, nothing sleeps.
Booked ==
    /\ pc' = "for"
    /\ confirmed' = confirmed \cup {candidate_date}
    /\ outcome' = "booked"
    /\ slept' = 0
    /\ sleepsSince' = [sleepsSince EXCEPT ![candidate_date] = -1]
    /\ failsSince' = [failsSince EXCEPT ![candidate_date] = -1]
    /\ log' = Logged(candidate_date, "booked")
    /\ UNCHANGED candidate_dates

\* book_week forgetting to append the date after a falsy result.
NotBookedDropped ==
    /\ pc' = "sleep"
    /\ outcome' = "failed"
    /\ slept' = 0
    /\ sleepsSince' = [sleepsSince EXCEPT ![candidate_date] = 0]
    /\ failsSince' = [d \in DOMAIN failsSince |->
                         IF d = candidate_date THEN 1
                         ELSE IF failsSince[d] >= 0 THEN failsSince[d] + 1
                         ELSE failsSince[d]]
    /\ log' = Logged(candidate_date, "failed")
    /\ UNCHANGED <<candidate_dates, confirmed>>

\* book_week appending the date but going on without the sleep.
NotBookedNoSleep ==
    /\ candidate_dates' = Append(candidate_dates, candidate_date)
    /\ pc' = "for"
    /\ outcome' = "failed"
    /\ slept' = 0
    /\ sleepsSince' = [sleepsSince EXCEPT ![candidate_date] = 0]
    /\ failsSince' = [d \in DOMAIN failsSince |->
                         IF d = candidate_date THEN 1
                         ELSE IF failsSince[d] >= 0 THEN failsSince[d] + 1
                         ELSE failsSince[d]]
    /\ log' = Logged(candidate_date, "failed")
    /\ UNCHANGED confirmed

\* book_week keeping a backoff state: the sleep is taken only when the
\* attempt before this one failed too.
NotBookedBackoff ==
    /\ candidate_dates' = Append(candidate_dates, candidate_date)
    /\ pc' = IF outcome \in {"failed", "connection_error"} THEN "sleep" ELSE "for"
    /\ outcome' = "failed"
    /\ slept' = 0
    /\ sleepsSince' = [sleepsSince EXCEPT ![candidate_date] = 0]
    /\ failsSince' = [d \in DOMAIN failsSince |->
                         IF d = candidate_date THEN 1
                         ELSE IF failsSince[d] >= 0 THEN failsSince[d] + 1
                         ELSE failsSince[d]]
    /\ log' = Logged(candidate_date, "failed")
    /\ UNCHANGED confirmed

\* book_week appending the date twice after a falsy result.
NotBookedTwice ==
    /\ candidate_dates' = Append(Append(candidate_dates, candidate_date), candidate_date)
    /\ pc' = "sleep"
    /\ outcome' = "failed"
    /\ slept' = 0
    /\ sleepsSince' = [sleepsSince EXCEPT ![candidate_date] = 0]
    /\ failsSince' = [d \in DOMAIN failsSince |->
                         IF d = candidate_date THEN 1
                         ELSE IF failsSince[d] >= 0 THEN failsSince[d] + 1
                         ELSE failsSince[d]]
    /\ log' = Logged(candidate_date, "failed")
    /\ UNCHANGED confirmed

\* book_week putting the date back at the front of the list.
NotBookedFront ==
    /\ candidate_dates' = <<candidate_date>> \o candidate_dates
    /\ pc' = "sleep"
    /\ outcome' = "failed"
    /\ slept' = 0
    /\ sleepsSince' = [sleepsSince EXCEPT ![candidate_date] = 0]
    /\ failsSince' = [d \in DOMAIN failsSince |->
                         IF d = candidate_date THEN 1
                         ELSE IF failsSince[d] >= 0 THEN failsSince[d] + 1
                         ELSE failsSince[d]]
    /\ log' = Logged(candidate_date, "failed")
    /\ UNCHANGED confirmed

\* book_single_day returned False or None: append the date, then sleep.
NotBooked ==
    /\ candidate_dates' = Append(candidate_dates, candidate_date)
    /\ pc' = "sleep"
    /\ outcome' = "failed"
    /\ slept' = 0
    /\ sleepsSince' = [sleepsSince EXCEPT ![candidate_date] = 0]
    /\ failsSince' = [d \in DOMAIN failsSince |->
                         IF d = candidate_date THEN 1
                         ELSE IF failsSince[d] >= 0 THEN failsSince[d] + 1
                         ELSE failsSince[d]]
    /\ log' = Logged(candidate_date, "failed")
    /\ UNCHANGED confirmed

\* The except clause printing the line but not appending the date.
ConnectionErrorDropped ==
    /\ out' = Append(out, ConnFailureLine)
    /\ pc' = "for"
    /\ outcome' = "connection_error"
    /\ slept' = 0
    /\ sleepsSince' = [sleepsSince EXCEPT ![candidate_date] = 0]
    /\ failsSince' = [failsSince EXCEPT ![candidate_date] = 0]
    /\ log' = Logged(candidate_date, "connection_error")
    /\ UNCHANGED <<candidate_dates, confirmed>>

\* The except clause sleeping like the falsy-result branch does.
ConnectionErrorSleeps ==
    /\ out' = Append(out, ConnFailureLine)
    /\ candidate_dates' = Append(candidate_dates, candidate_date)
    /\ pc' = "sleep"
    /\ outcome' = "connection_error"
    /\ slept' = 0
    /\ sleepsSince' = [sleepsSince EXCEPT ![candidate_date] = 0]
    /\ failsSince' = [failsSince EXCEPT ![candidate_date] = 0]
    /\ log' = Logged(candidate_date, "connection_error")
    /\ UNCHANGED confirmed

\* except requests.exceptions.ConnectionError: print, append the date.
ConnectionErrorHandler ==
    /\ out' = Append(out, ConnFailureLine)
    /\ candidate_dates' = Append(candidate_dates, candidate_date)
    /\ pc' = "for"
    /\ outcome' = "connection_error"
    /\ slept' = 0
    /\ sleepsSince' = [sleepsSince EXCEPT ![candidate_date] = 0]
    /\ failsSince' = [failsSince EXCEPT ![candidate_date] = 0]
    /\ log' = Logged(candidate_date, "connection_error")
    /\ UNCHANGED confirmed

\* Any other exception leaves book_week: nothing is printed or appended.
Propagate ==
    /\ pc' = "raised"
    /\ outcome' = "raised"
    /\ log' = Logged(candidate_date, "raised")
    /\ UNCHANGED <<candidate_dates, out, confirmed, slept, sleepsSince, failsSince>>

\* time.sleep(1), then the next iteration.
Sleep ==
    /\ pc = "sleep"
    /\ pc' = "for"
    /\ slept' = slept + SleepSeconds
    /\ sleepsSince' = [d \in DOMAIN sleepsSince |->
                          IF sleepsSince[d] >= 0 THEN sleepsSince[d] + 1 ELSE sleepsSince[d]]
    /\ UNCHANGED <<session, httpRequest, jwt, accepted, issued, HEADERS, today, configuration, input, searched, candidate_dates, i, candidate_date, desks, inflight, result,
                   out, confirmed, outcome, failsSince, reply, acknowledged,
                   everBookable, log>>

\* ------------------------------------------------------------ book_single_day

\* condeco.searchDeskByFeatures(...) is issued for strftime(candidate_date).
SendSearch ==
    /\ pc = "book_single_day"
    /\ inflight' = <<[op |-> "searchDeskByFeatures",
                      startDate |-> strftime(candidate_date),
                      bookingType |-> BookingTypeNone,
                      deskID |-> 0]>>
    /\ issued' = issued \cup {"searchDeskByFeatures"}
    /\ pc' = "search_wait"
    /\ UNCHANGED <<session, httpRequest, jwt, accepted, HEADERS, today, configuration, input, searched, candidate_dates, i, candidate_date, desks, result, out,
                   confirmed, outcome, slept, sleepsSince, failsSince, reply,
                   acknowledged, everBookable, log>>

\* The search ends in a ConnectionError.
SearchConnectionError ==
    /\ pc = "search_wait"
    /\ reply' = Reply(inflight[1], "ConnectionError", 0)
    /\ inflight' = <<>>
    /\ ConnectionErrorHandler
    /\ UNCHANGED <<session, httpRequest, jwt, accepted, issued, HEADERS, today, configuration, input, searched, i, candidate_date, desks, result, acknowledged, everBookable>>

\* response.json() or a subscript of it raises.
SearchUnreadable ==
    /\ pc = "search_wait"
    /\ reply' = Reply(inflight[1], "unreadable", 0)
    /\ inflight' = <<>>
    /\ Propagate
    /\ UNCHANGED <<session, httpRequest, jwt, accepted, issued, HEADERS, today, configuration, input, searched, i, candidate_date, desks, result, acknowledged, everBookable>>

\* book_single_day taking only the codes above 100 for a failure.
SearchFailedAbove(code) == code > SuccessCode

\* if response_json['CallResponse']['ResponseCode'] != 100 (book_single_day)
SearchFailed(code) == code # SuccessCode

\* The search is refused: print the server's message, return False.
SearchRefused(codes) ==
    /\ pc = "search_wait"
    /\ \E code \in codes :
        /\ SearchFailed(code)
        /\ reply' = Reply(inflight[1], "response", code)
        /\ out' = Append(out, AppFailureLine)
        /\ inflight' = <<>>
        /\ NotBooked
        /\ UNCHANGED <<session, httpRequest, jwt, accepted, issued, HEADERS, today, configuration, input, searched, i, candidate_date, desks, result, acknowledged, everBookable>>

\* The search succeeds: the for loop over SearchedDesks starts.
SearchFound(codes, lists) ==
    /\ pc = "search_wait"
    /\ \E code \in codes, found \in lists :
        /\ ~SearchFailed(code)
        /\ reply' = Reply(inflight[1], "response", code)
        /\ desks' = found
        /\ searched' = found
        /\ everBookable' = (everBookable \/ \E k \in DOMAIN found : found[k].CanBeBooked)
        /\ inflight' = <<>>
        /\ pc' = "scan"
        /\ UNCHANGED <<session, httpRequest, jwt, accepted, issued, HEADERS, today, configuration, input, candidate_dates, i, candidate_date, result, out, confirmed,
                       outcome, slept, sleepsSince, failsSince, acknowledged, log>>

\* book_single_day without the CanBeBooked test.
BookableAlways(desk) == TRUE

\* book_single_day with the CanBeBooked test inverted.
BookableInverted(desk) == ~desk.CanBeBooked

\* if desk['CanBeBooked']
Bookable(desk) == desk.CanBeBooked

\* The next desk cannot be booked: the for loop moves on.
ScanSkip ==
    /\ pc = "scan"
    /\ desks # <<>>
    /\ ~Bookable(Head(desks))
    /\ desks' = Tail(desks)
    /\ UNCHANGED <<session, httpRequest, jwt, accepted, issued, HEADERS, today, configuration, input, searched, candidate_dates, i, pc, candidate_date, inflight, result, out,
                   confirmed, outcome, slept, sleepsSince, failsSince, reply,
                   acknowledged, everBookable, log>>

\* The next desk can be booked: book_desk issues condeco.bookDesk(...).
ScanBook ==
    /\ pc = "scan"
    /\ desks # <<>>
    /\ Bookable(Head(desks))
    /\ out' = Append(out, AttemptingLine)
    /\ inflight' = <<[op |-> "bookDesk",
                      startDate |-> strftime(candidate_date),
                      bookingType |-> BookingTypeAllDay,
                      deskID |-> Head(desks).DeskID]>>
    /\ desks' = Tail(desks)
    /\ issued' = issued \cup {"bookDesk"}
    /\ pc' = "book_wait"
    /\ UNCHANGED <<session, httpRequest, jwt, accepted, HEADERS, today, configuration, input, searched, candidate_dates, i, candidate_date, result, confirmed, outcome,
                   slept, sleepsSince, failsSince, reply, acknowledged, everBookable, log>>

\* book_week taking the None of an exhausted desk list for a booking.
ScanEndResolved ==
    /\ pc = "scan"
    /\ desks = <<>>
    /\ Booked
    /\ UNCHANGED <<session, httpRequest, jwt, accepted, issued, HEADERS, today, configuration, input, searched, i, candidate_date, desks, inflight, result, out, reply,
                   acknowledged, everBookable>>

\* The for loop ends without a return: book_single_day returns None.
ScanEnd ==
    /\ pc = "scan"
    /\ desks = <<>>
    /\ NotBooked
    /\ UNCHANGED <<session, httpRequest, jwt, accepted, issued, HEADERS, today, configuration, input, searched, i, candidate_date, desks, inflight, result, out, reply,
                   acknowledged, everBookable>>

\* ------------------------------------------------------------ book_desk

\* The booking call ends in a ConnectionError; the service may have accepted
\* the request (or one of the adapter's re-sends of it) before the answer was lost.
BookConnectionError ==
    /\ pc = "book_wait"
    /\ reply' = Reply(inflight[1], "ConnectionError", 0)
    /\ \E served \in BOOLEAN : accepted' = IF served THEN Served(candidate_date) ELSE accepted
    /\ inflight' = <<>>
    /\ desks' = <<>>
    /\ ConnectionErrorHandler
    /\ UNCHANGED <<session, httpRequest, jwt, issued, HEADERS, today, configuration, input, searched, i, candidate_date, result, acknowledged, everBookable>>

\* response.json() or a subscript of it raises; the service may have accepted
\* the request all the same.
BookUnreadable ==
    /\ pc = "book_wait"
    /\ reply' = Reply(inflight[1], "unreadable", 0)
    /\ \E served \in BOOLEAN : accepted' = IF served THEN Served(candidate_date) ELSE accepted
    /\ inflight' = <<>>
    /\ desks' = <<>>
    /\ Propagate
    /\ UNCHANGED <<session, httpRequest, jwt, issued, HEADERS, today, configuration, input, searched, i, candidate_date, result, acknowledged, everBookable>>

\* book_desk taking every code from 100 up for a confirmation.
BookingSucceededLoose(code) == code >= SuccessCode

\* if response_json['CallResponse']['ResponseCode'] == 100 (book_desk)
BookingSucceeded(code) == code = SuccessCode

\* The startDate values answered with ResponseCode 100, after one more answer.
Acknowledge(request, code) ==
    IF code = SuccessCode THEN acknowledged \cup {request.startDate} ELSE acknowledged

\* book_single_day going on with the next desk after a confirmed booking.
BookAcceptedContinues(codes) ==
    /\ pc = "book_wait"
    /\ \E code \in codes :
        /\ BookingSucceeded(code)
        /\ reply' = Reply(inflight[1], "response", code)
        /\ acknowledged' = Acknowledge(inflight[1], code)
        /\ accepted' = Served(candidate_date)
        /\ out' = Append(out, BookedLine)
        /\ inflight' = <<>>
        /\ pc' = "scan"
        /\ UNCHANGED <<session, httpRequest, jwt, issued, HEADERS, today, configuration, input, searched, candidate_dates, i, candidate_date, desks, result, confirmed,
                       outcome, slept, sleepsSince, failsSince, everBookable, log>>

\* The booking is accepted: print the confirmation, return True.
BookAccepted(codes) ==
    /\ pc = "book_wait"
    /\ \E code \in codes :
        /\ BookingSucceeded(code)
        /\ reply' = Reply(inflight[1], "response", code)
        /\ acknowledged' = Acknowledge(inflight[1], code)
        /\ accepted' = Served(candidate_date)
        /\ out' = Append(out, BookedLine)
        /\ inflight' = <<>>
        /\ desks' = <<>>
        /\ Booked
        /\ UNCHANGED <<session, httpRequest, jwt, issued, HEADERS, today, configuration, input, searched, i, candidate_date, result, everBookable>>

\* book_single_day returning False as soon as one booking is refused.
BookRefusedReturns(codes) ==
    /\ pc = "book_wait"
    /\ \E code \in codes :
        /\ ~BookingSucceeded(code)
        /\ reply' = Reply(inflight[1], "response", code)
        /\ acknowledged' = Acknowledge(inflight[1], code)
        /\ out' = Append(out, AppFailureLine)
        /\ inflight' = <<>>
        /\ desks' = <<>>
        /\ NotBooked
        /\ UNCHANGED <<session, httpRequest, jwt, accepted, issued, HEADERS, today, configuration, input, searched, i, candidate_date, result, everBookable>>

\* The booking is refused: print the server's message, return False; the for
\* loop of book_single_day goes on with the next desk.
BookRefused(codes) ==
    /\ pc = "book_wait"
    /\ \E code \in codes :
        /\ ~BookingSucceeded(code)
        /\ reply' = Reply(inflight[1], "response", code)
        /\ acknowledged' = Acknowledge(inflight[1], code)
        /\ out' = Append(out, AppFailureLine)
        /\ inflight' = <<>>
        /\ pc' = "scan"
        /\ UNCHANGED <<session, httpRequest, jwt, accepted, issued, HEADERS, today, configuration, input, searched, candidate_dates, i, candidate_date, desks, result, confirmed,
                       outcome, slept, sleepsSince, failsSince, everBookable, log>>

\* ------------------------------------------------------------ main

\* main printing the success summary whatever book_week returned.
SummaryAlwaysOk(returned) == FinishedOkLine

\* if book_week(...): the success summary, else: the failure summary.
Summary(returned) == IF returned = "True" THEN FinishedOkLine ELSE FinishedFailLine

\* book_week has returned: main prints the summary and returns.
MainFinish ==
    /\ pc = "done"
    /\ out' = Append(out, Summary(result))
    /\ pc' = "exit"
    /\ UNCHANGED <<session, httpRequest, jwt, accepted, issued, HEADERS, today, configuration, input, searched, candidate_dates, i, candidate_date, desks, inflight,
                   result, confirmed, outcome, slept, sleepsSince, failsSince, reply,
                   acknowledged, everBookable, log>>

\* ------------------------------------------------------------ specifications

Next ==
    \/ ReturnTrue
    \/ ReturnFalse
    \/ Pop
    \/ Sleep
    \/ SendSearch
    \/ SearchConnectionError
    \/ SearchUnreadable
    \/ SearchRefused(ResponseCodes)
    \/ SearchFound(ResponseCodes, SearchedDesksLists)
    \/ ScanSkip
    \/ ScanBook
    \/ ScanEnd
    \/ BookConnectionError
    \/ BookUnreadable
    \/ BookAccepted(ResponseCodes)
    \/ BookRefused(ResponseCodes)
    \/ MainFinish

Spec == Init /\ [][Next]_vars

\* book_week against the mock of the specification's first testable property:
\* every search returns one bookable desk and every booking succeeds.
InitMock == \E n \in 1..MaxLong : InitWith(InputList(n))

NextMock ==
    \/ ReturnTrue
    \/ ReturnFalse
    \/ Pop
    \/ SendSearch
    \/ SearchFound(MockCodes, MockDesksLists)
    \/ ScanBook
    \/ BookAccepted(MockCodes)

SpecMock == InitMock /\ [][NextMock]_vars

\* ------------------------------------------------------------ Condeco.session

\* urllib3.util.Retry(total=3, ...) with one retry more.
RetryTotalPlusOne == 3 + 1

\* urllib3.util.Retry(total=3, ...)
RetryTotal == 3

\* urllib3.util.Retry(..., allowed_methods=['GET','PUT','POST'])
AllowedMethods == {"GET", "PUT", "POST"}

\* The verbs the methods of Condeco send: session.get, session.post, session.put.
Methods == {"GET", "POST", "PUT"}

\* DefaultCookiePolicy(allowed_domains=[]): the only domains cookies are
\* accepted from and returned to.
AllowedDomains == {}

\* The host of every URL of the client: https://{self.unique_key}/...
UniqueKey == "unique_key"

\* Cookies a response can set, the load balancer's ARRAffinity among them.
CookieNames == {"ARRAffinity", "ASP.NET_SessionId"}

\* The statuses with which a response redirects.
RedirectCodes == {302, 307}

\* The session's cookie policy: a cookie of this domain may be stored in the
\* session's jar and returned from it.
DomainAllowed(domain) == domain \in AllowedDomains

\* The Set-Cookie headers of a response as session.cookies takes them in.
ExtractToSession(setCookie) ==
    session.cookies \cup {c \in setCookie : DomainAllowed(UniqueKey)}

\* Retry.increment: an error before the request was sent is retried for any
\* verb, an error while reading the response only for the allowed verbs.
Retryable(kind, method) ==
    \/ kind = "connect"
    \/ method \in AllowedMethods

\* requests follows a 302 with a GET and a 307 with the same verb.
rebuild_method(method, code) == IF code = 302 THEN "GET" ELSE method

\* The access tokens the authenticated methods are called with.
AccessTokens == {"tokenA", "tokenB"}

\* headers[key] = value on a dict.
SetItem(dict, key, value) == {h \in dict : h[1] # key} \cup {<<key, value>>}

\* The headers a method sends: Condeco.HEADERS itself for the methods without
\* an access token, else a copy with the Authorization entry set.
MethodHeaders(access_token) ==
    IF access_token = "" THEN HEADERS
    ELSE SetItem(HEADERS, "Authorization", <<"Bearer", access_token>>)

\* headers = Condeco.HEADERS without the copy(): the class's dict is the one
\* the method writes to.
HeadersAliased(shared, headers) == headers

\* headers = Condeco.HEADERS.copy(): the method's writes leave the class's
\* dict alone.
HeadersCopied(shared, headers) == shared

\* A method of Condeco sends a request through the session: one without an
\* access token (a GET or a POST) or one with; the Cookie header is made from
\* the session's jar.
ClientCall(method, access_token) ==
    /\ httpRequest.status # "sent"
    /\ access_token = "" => method \in {"GET", "POST"}
    /\ httpRequest' = [method |-> method, status |-> "sent", retries |-> 0, reads |-> 0,
                       hops |-> 0, jar |-> session.cookies, cookie |-> session.cookies,
                       access_token |-> access_token,
                       headers |-> MethodHeaders(access_token),
                       previous |-> httpRequest.access_token]
    /\ HEADERS' = HeadersCopied(HEADERS, MethodHeaders(access_token))
    /\ UNCHANGED <<session, jwt, accepted, issued, today, configuration, input, searched, candidate_dates, i, pc, candidate_date,
                   desks, inflight, result, out, confirmed, outcome, slept, sleepsSince,
                   failsSince, reply, acknowledged, everBookable, log>>

\* The transport fails (no connection, or no answer within TIMEOUT): the
\* adapter sends the request again while the Retry allows it, and the error
\* surfaces as a ConnectionError once it does not.
TransportError(kind) ==
    /\ httpRequest.status = "sent"
    /\ IF Retryable(kind, httpRequest.method) /\ httpRequest.retries < RetryTotal
       THEN httpRequest' = [httpRequest EXCEPT
                               !.retries = @ + 1,
                               !.reads = IF kind = "read" THEN @ + 1 ELSE @]
       ELSE httpRequest' = [httpRequest EXCEPT !.status = "raised"]
    /\ UNCHANGED <<session, jwt, accepted, issued, HEADERS, today, configuration, input, searched, candidate_dates, i, pc, candidate_date,
                   desks, inflight, result, out, confirmed, outcome, slept, sleepsSince,
                   failsSince, reply, acknowledged, everBookable, log>>

\* A final response arrives; its Set-Cookie headers are offered to the
\* session's jar.
Respond(setCookie) ==
    /\ httpRequest.status = "sent"
    /\ session' = [session EXCEPT !.cookies = ExtractToSession(setCookie)]
    /\ httpRequest' = [httpRequest EXCEPT !.status = "answered"]
    /\ UNCHANGED <<jwt, accepted, issued, HEADERS, today, configuration, input, searched, candidate_dates, i, pc, candidate_date,
                   desks, inflight, result, out, confirmed, outcome, slept, sleepsSince,
                   failsSince, reply, acknowledged, everBookable, log>>

\* A redirect arrives (allow_redirects is left at its default): its
\* Set-Cookie headers are offered to the session's jar and taken into the
\* request's own jar, which has the default policy; the follow-up request is
\* sent with the Cookie header made from that jar and the session's.
Redirect(code, setCookie) ==
    /\ httpRequest.status = "sent"
    /\ httpRequest.hops < MaxHops
    /\ session' = [session EXCEPT !.cookies = ExtractToSession(setCookie)]
    /\ LET jar == httpRequest.jar \cup setCookie \cup ExtractToSession(setCookie)
       IN  httpRequest' = [method |-> rebuild_method(httpRequest.method, code),
                           status |-> "sent", retries |-> 0, reads |-> 0,
                           hops |-> httpRequest.hops + 1, jar |-> jar, cookie |-> jar,
                           access_token |-> httpRequest.access_token,
                           headers |-> httpRequest.headers,
                           previous |-> httpRequest.previous]
    /\ UNCHANGED <<jwt, accepted, issued, HEADERS, today, configuration, input, searched, candidate_dates, i, pc, candidate_date,
                   desks, inflight, result, out, confirmed, outcome, slept, sleepsSince,
                   failsSince, reply, acknowledged, everBookable, log>>

NextClient ==
    \/ \E method \in Methods, access_token \in AccessTokens \cup {""} :
          ClientCall(method, access_token)
    \/ \E kind \in {"connect", "read"} : TransportError(kind)
    \/ \E setCookie \in SUBSET CookieNames : Respond(setCookie)
    \/ \E code \in RedirectCodes, setCookie \in SUBSET CookieNames : Redirect(code, setCookie)

SpecClient == InitWith(<<>>) /\ [][NextClient]_vars

\* ------------------------------------------------------------ Condeco.decode_jwt

\* 'require' without the role claim.
RequireWithoutRole == {"id", "username", "passwordless", "iss", "aud", "exp", "nbf"}

\* 'require': ['id', 'username', 'passwordless', 'role', 'iss', 'aud', 'exp', 'nbf']
Require == {"id", "username", "passwordless", "role", "iss", "aud", "exp", "nbf"}

\* issuer='CondecoPasswordless'
Issuer == "CondecoPasswordless"

\* The payloads' key sets: every claim, or all but one of them.
KeySets == {ClaimNames} \cup {ClaimNames \ {c} : c \in ClaimNames}

\* The clock and the time claims.
Times == 0..MaxTime

\* The tokens decode_jwt is given; a claim the payload lacks has no value of
\* its own.
Tokens ==
    {t \in {Token(sig, keys, iss, aud, exp, nbf, iat, iatIsInt) :
               sig \in {"valid", "invalid"}, keys \in KeySets,
               iss \in {Issuer, "Other"}, aud \in {"mobile", "web"},
               exp \in Times, nbf \in Times, iat \in Times, iatIsInt \in BOOLEAN} :
        /\ "iss" \notin t.keys => t.iss = Issuer
        /\ "aud" \notin t.keys => t.aud = "mobile"
        /\ "exp" \notin t.keys => t.exp = 0
        /\ "nbf" \notin t.keys => t.nbf = 0
        /\ ("iat" \notin t.keys \/ ~t.iatIsInt) => t.iat = 0
        /\ "iat" \notin t.keys => t.iatIsInt}

\* The audience argument: None, or an audience.
Audiences == {"", "mobile"}

\* jwt.decode with the options of decode_jwt: the signature is not looked at;
\* the required claims, iat, nbf, exp and iss are validated, and aud only
\* under `if audience`.
decode_jwt(token, audience, now) ==
    LET verify_aud == audience # ""
        has(c) == c \in token.keys
    IN  CASE \E c \in Require : ~has(c) ->
                 Decoded("MissingRequiredClaimError", <<>>)
          [] OTHER ->
             CASE has("iat") /\ ~token.iatIsInt -> Decoded("InvalidIssuedAtError", <<>>)
               [] has("iat") /\ token.iatIsInt /\ token.iat > now ->
                      Decoded("ImmatureSignatureError", <<>>)
               [] OTHER ->
                  CASE token.nbf > now -> Decoded("ImmatureSignatureError", <<>>)
                    [] token.exp <= now -> Decoded("ExpiredSignatureError", <<>>)
                    [] token.iss # Issuer -> Decoded("InvalidIssuerError", <<>>)
                    [] verify_aud /\ token.aud # audience ->
                           Decoded("InvalidAudienceError", <<>>)
                    [] OTHER -> Decoded("none", Payload(token))

\* decode_jwt is called with a token and an audience at some time.
DecodeJwt ==
    /\ jwt.result.error = "not called"
    /\ \E token \in Tokens, audience \in Audiences, now \in Times :
          jwt' = [token |-> token, audience |-> audience, now |-> now,
                  result |-> decode_jwt(token, audience, now)]
    /\ UNCHANGED <<session, httpRequest, accepted, issued, HEADERS, today, configuration, input, searched, candidate_dates, i, pc,
                   candidate_date, desks, inflight, result, out, confirmed, outcome, slept,
                   sleepsSince, failsSince, reply, acknowledged, everBookable, log>>

SpecJwt == InitWith(<<>>) /\ [][DecodeJwt]_vars

\* ------------------------------------------------------------ main: the target dates

\* Leap years of the calendar of datetime.date.
IsLeap(y) == y % 4 = 0 /\ (y % 100 # 0 \/ y % 400 = 0)

\* Days of month m of year y.
DaysInMonth(y, m) ==
    IF m = 2 THEN (IF IsLeap(y) THEN 29 ELSE 28)
    ELSE IF m \in {4, 6, 9, 11} THEN 30 ELSE 31

\* Days of year y before the first of month m.
RECURSIVE DaysBeforeMonth(_, _)
DaysBeforeMonth(y, m) ==
    IF m = 1 THEN 0 ELSE DaysBeforeMonth(y, m - 1) + DaysInMonth(y, m - 1)

\* Days before the first of January of year y.
DaysBeforeYear(y) ==
    LET p == y - 1 IN p * 365 + (p \div 4) - (p \div 100) + (p \div 400)

\* date.toordinal(): 0001-01-01 is day 1.
toordinal(date) ==
    DaysBeforeYear(date.year) + DaysBeforeMonth(date.year, date.month) + date.day

\* date.weekday(): Monday is 0, Sunday is 6.
weekday(date) == (toordinal(date) + 6) % 7

\* date.fromordinal(n): the 400-, 100-, 4- and 1-year cycles, then the month
\* estimated as (n + 50) >> 5 and corrected.
fromordinal(ordinal) ==
    LET n0 == ordinal - 1
        n400 == n0 \div 146097
        n1r == n0 % 146097
        n100 == n1r \div 36524
        n2r == n1r % 36524
        n4 == n2r \div 1461
        n3r == n2r % 1461
        n1 == n3r \div 365
        n == n3r % 365
        year == n400 * 400 + 1 + n100 * 100 + n4 * 4 + n1
        leapyear == n1 = 3 /\ (n4 # 24 \/ n100 = 3)
        estimate == (n + 50) \div 32
        before(m) == DaysBeforeMonth(1, m) + (IF m > 2 /\ leapyear THEN 1 ELSE 0)
        month == IF before(estimate) > n THEN estimate - 1 ELSE estimate
    IN  IF n1 = 4 \/ n100 = 4 THEN Date(year - 1, 12, 31)
        ELSE Date(year, month, n - before(month) + 1)

\* date + datetime.timedelta(days=days)
Plus(date, days) == fromordinal(toordinal(date) + days)

\* main putting the Monday first in the list.
TargetDatesMondayFirst(current_date) ==
    LET start_of_week == Plus(current_date, 3 * 7 - weekday(current_date))
    IN  <<start_of_week, Plus(start_of_week, 4)>>

\* start_of_week = current_date + timedelta(days=-current_date.weekday(), weeks=3)
\* candidate_dates = [start_of_week + timedelta(days=4), start_of_week]
TargetDates(current_date) ==
    LET start_of_week == Plus(current_date, 3 * 7 - weekday(current_date))
    IN  <<Plus(start_of_week, 4), start_of_week>>

\* The first of the days main is run on.
FirstDay == Date(2023, 12, 11)

\* The days main is run on: more than a year of them, a 29th of February and
\* a turn of the year among the dates they lead to.
Days == {Plus(FirstDay, k) : k \in 0..MaxToday}

\* ------------------------------------------------------------ main: the branches

StartingLine == "Starting booking for"
TokenExpiresLine == "Token expires in"

\* A token decode_jwt accepts until the clock reaches MaxTime.
GoodToken == Token("valid", ClaimNames, Issuer, "mobile", MaxTime, 0, 0, TRUE)

\* A token without the id claim.
TokenLackingId == Token("valid", ClaimNames \ {"id"}, Issuer, "mobile", MaxTime, 0, 0, TRUE)

\* The clock when main runs: before the expiry of the configured token, or at it.
MainClock == {MaxTime - 1, MaxTime}

\* The day main is run on in the specification's example.
ExampleDay == Date(2024, 2, 14)

\* The configurations main is run with: a token (with or without a validation
\* key next to it), a validation key only, or neither.
MainConfigurations ==
    {Configuration(<<GoodToken>>, key, "user@example.com") : key \in {"", "key"}}
    \cup {Configuration(<<TokenLackingId>>, "", "user@example.com")}
    \cup {Configuration(<<>>, key, "user@example.com") : key \in {"", "key"}}

\* main starts: configuration.json is loaded, the Condeco object is made.
InitMainWith(days, configurations) ==
    /\ input = <<>>
    /\ candidate_dates = <<>>
    /\ i = 0
    /\ pc = "main"
    /\ candidate_date = NoDate
    /\ desks = <<>>
    /\ searched = <<>>
    /\ inflight = <<>>
    /\ result = "None"
    /\ out = <<>>
    /\ confirmed = {}
    /\ outcome = "none"
    /\ slept = 0
    /\ sleepsSince = <<>>
    /\ failsSince = <<>>
    /\ reply = NoReply
    /\ acknowledged = {}
    /\ everBookable = FALSE
    /\ log = <<>>
    /\ session = [cookies |-> {}]
    /\ httpRequest = NoRequest
    /\ jwt = NoJwt
    /\ accepted = <<>>
    /\ issued = {}
    /\ HEADERS = ClassHeaders
    /\ today \in days
    /\ configuration \in configurations

\* elif with the test of the token left out: the validation key alone decides.
ChoosesLoginLoose(config) == config.validation_key # ""

\* if configuration['authentication'].get('token')
ChoosesBooking(config) == config.token # <<>>

\* elif configuration['authentication'].get('validation_key')
ChoosesLogin(config) == ~ChoosesBooking(config) /\ config.validation_key # ""

\* else
ChoosesSend(config) == ~ChoosesBooking(config) /\ config.validation_key = ""

\* The token branch: the target dates are computed from today's date.
MainDates ==
    /\ pc = "main"
    /\ ChoosesBooking(configuration)
    /\ candidate_dates' = TargetDates(today)
    /\ input' = TargetDates(today)
    /\ sleepsSince' = [d \in Range(TargetDates(today)) |-> -1]
    /\ failsSince' = [d \in Range(TargetDates(today)) |-> -1]
    /\ accepted' = [d \in Range(TargetDates(today)) |-> 0]
    /\ out' = <<StartingLine>>
    /\ pc' = "decode_jwt"
    /\ UNCHANGED <<i, candidate_date, desks, searched, inflight, result, confirmed, outcome,
                   slept, reply, acknowledged, everBookable, log, session, httpRequest, jwt,
                   issued, HEADERS, today, configuration>>

\* main calling book_week whatever decode_jwt made of the token.
MainDecodeIgnored ==
    /\ pc = "decode_jwt"
    /\ \E now \in MainClock :
          jwt' = [token |-> configuration.token[1], audience |-> "", now |-> now,
                  result |-> decode_jwt(configuration.token[1], "", now)]
    /\ out' = Append(out, TokenExpiresLine)
    /\ pc' = "for"
    /\ UNCHANGED <<input, candidate_dates, i, candidate_date, desks, searched, inflight, result,
                   confirmed, outcome, slept, sleepsSince, failsSince, reply, acknowledged,
                   everBookable, log, session, httpRequest, accepted, issued, HEADERS, today,
                   configuration>>

\* decoded_jwt = Condeco.decode_jwt(access_token): on a payload main prints
\* the expiry and calls book_week; an exception of jwt.decode leaves main.
MainDecode ==
    /\ pc = "decode_jwt"
    /\ \E now \in MainClock :
          /\ jwt' = [token |-> configuration.token[1], audience |-> "", now |-> now,
                     result |-> decode_jwt(configuration.token[1], "", now)]
          /\ IF decode_jwt(configuration.token[1], "", now).error = "none"
             THEN /\ out' = Append(out, TokenExpiresLine)
                  /\ pc' = "for"
             ELSE /\ out' = out
                  /\ pc' = "rejected"
    /\ UNCHANGED <<input, candidate_dates, i, candidate_date, desks, searched, inflight, result,
                   confirmed, outcome, slept, sleepsSince, failsSince, reply, acknowledged,
                   everBookable, log, session, httpRequest, accepted, issued, HEADERS, today,
                   configuration>>

\* The validation key branch: condeco.loginWithMagicLink(...), print, return.
MainLogin ==
    /\ pc = "main"
    /\ ChoosesLogin(configuration)
    /\ issued' = issued \cup {"loginWithMagicLink"}
    /\ pc' = "exit"
    /\ UNCHANGED <<input, candidate_dates, i, candidate_date, desks, searched, inflight, result,
                   out, confirmed, outcome, slept, sleepsSince, failsSince, reply, acknowledged,
                   everBookable, log, session, httpRequest, jwt, accepted, HEADERS, today,
                   configuration>>

\* The else branch: condeco.sendMagicLink(...), print, return.
MainSend ==
    /\ pc = "main"
    /\ ChoosesSend(configuration)
    /\ issued' = issued \cup {"sendMagicLink"}
    /\ pc' = "exit"
    /\ UNCHANGED <<input, candidate_dates, i, candidate_date, desks, searched, inflight, result,
                   out, confirmed, outcome, slept, sleepsSince, failsSince, reply, acknowledged,
                   everBookable, log, session, httpRequest, jwt, accepted, HEADERS, today,
                   configuration>>

InitMain == InitMainWith({ExampleDay}, MainConfigurations)

NextMain ==
    \/ MainDates
    \/ MainDecode
    \/ MainLogin
    \/ MainSend
    \/ Next

SpecMain == InitMain /\ [][NextMain]_vars

\* main on each of the days, with a token configured, up to the first pop of
\* book_week.
InitDates == InitMainWith(Days, {Configuration(<<GoodToken>>, "", "user@example.com")})

NextDates ==
    \/ MainDates
    \/ MainDecode
    \/ Pop

SpecDates == InitDates /\ [][NextDates]_vars

\* ------------------------------------------------------------ properties

\* The date is popped and its iteration has not ended (or has ended in an
\* exception that left book_week).
InHand(d) ==
    /\ d = candidate_date
    /\ pc \in {"book_single_day", "search_wait", "scan", "book_wait", "raised"}

\* The date has left candidate_dates and its iteration is over.
Resolved(d) ==
    /\ d \in Range(input)
    /\ d \notin Range(candidate_dates)
    /\ ~InHand(d)

\* Both lists hold the same dates, each once.
SameDatesOnce(s, t) ==
    /\ Len(s) = Len(t)
    /\ Range(s) = Range(t)
    /\ Cardinality(Range(s)) = Len(s)

C2_TrueIffEmpty ==
    pc = "done" => (result = "True" <=> candidate_dates = <<>>)

\* C3 as stated: against the always-bookable mock, for every non-empty input
\* list, book_week returns True with every date booked.
C3_MockAlwaysSucceeds ==
    pc = "done" => (result = "True" /\ confirmed = Range(input))

\* C3 amended: against the always-bookable mock, for every non-empty input
\* list of fewer than 120 dates, book_week never stops before it returns, and
\* it returns True with every date booked and candidate_dates empty.
C3_MockSucceedsBelowBudget ==
    Len(input) < Budget =>
        /\ pc # "raised"
        /\ pc # "done" => ENABLED NextMock
        /\ pc = "done" =>
              /\ result = "True"
              /\ confirmed = Range(input)
              /\ candidate_dates = <<>>

\* C3 witness: the longest list the budget covers has been booked in full.
C3_Witness ==
    /\ pc = "done"
    /\ Len(input) = Budget - 1
    /\ result = "True"
    /\ confirmed = Range(input)

C5_BookedNeverRetried ==
    \A d \in confirmed :
        /\ d \notin Range(candidate_dates)
        /\ ~(d = candidate_date /\ pc \in {"book_single_day", "search_wait", "scan", "book_wait"})
        /\ inflight # <<>> => inflight[1].startDate # strftime(d)

\* C5 witness: a request is in flight for one date after another was booked.
C5_Witness ==
    /\ confirmed # {}
    /\ inflight # <<>>
    /\ candidate_date \notin confirmed

\* The step ends an attempt with the date appended again.
FailsNow ==
    /\ pc \in {"search_wait", "scan", "book_wait"}
    /\ pc' \in {"sleep", "for"}
    /\ outcome' \in {"failed", "connection_error"}

\* The outcomes of the logged attempts on one date, in order.
AttemptsOn(d) ==
    LET OnDate(e) == e.date = d
        mine == SelectSeq(log, OnDate)
    IN  [k \in 1..Len(mine) |-> mine[k].outcome]

\* candidate_date is the last element of candidate_dates.
Requeued ==
    /\ candidate_dates # <<>>
    /\ candidate_dates[Len(candidate_dates)] = candidate_date

\* No attempt so far ended in a connection error.
NoConnectionErrorYet ==
    /\ log # Overflow
    /\ \A k \in DOMAIN log : log[k].outcome # "connection_error"

\* C6 as stated: no sleep precedes the first attempt, and when an attempt on a
\* date fails and the previous attempt on that date failed too, exactly one
\* sleep has occurred between the two.  Failures are read as falsy results
\* of book_single_day, in runs without a connection error: the reading most
\* favourable to the claim.
C6_OneSleepBetweenFailures ==
    /\ [](outcome = "none" => slept = 0)
    /\ [][(/\ FailsNow
           /\ outcome' = "failed"
           /\ NoConnectionErrorYet
           /\ sleepsSince[candidate_date] >= 0) =>
              sleepsSince[candidate_date] = 1]_vars

\* C6 amended: no sleep precedes the first attempt, and the sleeps since a
\* date's latest failed attempt are exactly one per falsy book_single_day
\* result since then (that attempt's included, whatever the date): none after
\* a connection error, one more for each other date that failed in between.
C6_OneSleepPerFalsyResult ==
    /\ outcome = "none" =>
          /\ slept = 0
          /\ \A d \in DOMAIN sleepsSince : sleepsSince[d] = -1
    /\ \A d \in DOMAIN sleepsSince :
          sleepsSince[d] >= 0 =>
              sleepsSince[d] = failsSince[d] - (IF pc = "sleep" THEN 1 ELSE 0)

\* C6 witness: the only date is attempted again after one failure and one sleep.
C6_Witness ==
    /\ pc = "search_wait"
    /\ Len(input) = 1
    /\ failsSince[candidate_date] = 1
    /\ sleepsSince[candidate_date] = 1

\* C7 as stated: a falsy result that directly follows a booked attempt, or is
\* the first attempt of the run, is not followed by a sleep.
C7_NoSleepAfterSuccess ==
    [][(FailsNow /\ outcome' = "failed" /\ outcome \in {"none", "booked"}) =>
           pc' # "sleep"]_vars

\* C7 amended: the sleep follows every falsy result, whatever the attempt
\* before it was (there is no backoff state), and nothing else.
C7_SleepAfterEveryFalsyResult ==
    [][(pc \in {"search_wait", "scan", "book_wait"} /\ pc' \in {"sleep", "for", "raised"}) =>
           (pc' = "sleep" <=> outcome' = "failed")]_vars

\* C7 witness: the sleep after a falsy result that directly follows a booking.
C7_Witness ==
    /\ pc = "sleep"
    /\ Len(log) = 2
    /\ log[1].outcome = "booked"
    /\ log[2].outcome = "failed"

\* C8: for [d1, d2] with d1 booked on its first attempt and d2 booked on its
\* second, book_week returns True with candidate_dates empty after the
\* attempts d1, d2 (pass one) and d2 (pass two).
C8_TwoPasses ==
    (/\ pc = "done"
     /\ input = InputList(2)
     /\ log # Overflow
     /\ AttemptsOn(DateOf(1)) = <<"booked">>
     /\ AttemptsOn(DateOf(2)) \in {<<"failed", "booked">>, <<"connection_error", "booked">>})
    =>
        /\ result = "True"
        /\ candidate_dates = <<>>
        /\ i = 3
        /\ [k \in 1..Len(log) |-> log[k].date] = <<DateOf(1), DateOf(2), DateOf(2)>>

\* C8 witness: the run of the example has returned.
C8_Witness ==
    /\ pc = "done"
    /\ input = <<Date(2024, 3, 8), Date(2024, 3, 4)>>
    /\ log # Overflow
    /\ AttemptsOn(Date(2024, 3, 8)) = <<"booked">>
    /\ AttemptsOn(Date(2024, 3, 4)) = <<"failed", "booked">>

\* C9: after a call ended in a ConnectionError the exception has not left
\* book_week, the line printed last is the connection-error line (not the
\* line with the server's message), and the date is back in candidate_dates.
C9_TransportFailureRequeued ==
    reply.kind = "ConnectionError" =>
        /\ pc \in {"for", "book_single_day", "search_wait", "done", "exit"}
        /\ pc = "for" =>
              /\ outcome = "connection_error"
              /\ out[Len(out)] = ConnFailureLine
              /\ Len(SelectSeq(out, LAMBDA line : line = ConnFailureLine)) = 1
              /\ Requeued

\* C9 witness: a bookDesk call has just ended in a ConnectionError.
C9_Witness ==
    /\ pc = "for"
    /\ reply.kind = "ConnectionError"
    /\ reply.op = "bookDesk"

\* C10: between attempts, after a connection error the date is requeued and
\* no second has been slept; after a falsy result the date is requeued and
\* one second is slept; the sleep is never reached from a connection error.
C10_SleepOnlyAfterFalsyResult ==
    /\ (pc \in {"for", "done"} /\ outcome = "connection_error") => (slept = 0 /\ Requeued)
    /\ (pc \in {"for", "done"} /\ outcome = "failed") => (slept = SleepSeconds /\ Requeued)
    /\ pc = "sleep" => (outcome = "failed" /\ slept = 0 /\ Requeued)

\* C10 witness: a connection error and then a falsy result, the second slept.
C10_Witness ==
    /\ pc = "for"
    /\ Len(log) = 2
    /\ log[1].outcome = "connection_error"
    /\ log[2].outcome = "failed"
    /\ slept = SleepSeconds

\* How often a line was printed since the latest pop.
Printed(line) == Len(SelectSeq(out, LAMBDA l : l = line))

\* bookDesk requests issued since the latest pop: each follows its
\* "Attempting to book" line.
BookRequests == Printed(AttemptingLine)

\* The bookable desks among the first k of the search result.
BookableAmong(k) == Cardinality({j \in 1..k : searched[j].CanBeBooked})

\* How many desks of the search result the for loop has taken.
Taken == Len(searched) - Len(desks)

\* The latest call was a search answered with a response.
SearchAnswered ==
    /\ reply.op = "searchDeskByFeatures"
    /\ reply.kind = "response"

\* C11: no outcome of a call makes book_week raise, and after every failed
\* attempt the date is back in candidate_dates.
C11_NoFailureFatal ==
    /\ pc # "raised"
    /\ (pc \in {"for", "sleep"} /\ outcome \in {"failed", "connection_error"}) => Requeued

\* C12 as stated: at most one bookDesk request is issued per pass.
C12_OneBookingPerPass ==
    BookRequests <= 1

\* C12 amended: within one pass a bookDesk request is issued for each
\* bookable desk of the search result, in list order, until one is accepted;
\* the date is requeued for a refused booking only once every bookable desk
\* of the list has been tried.
C12_OneBookingPerBookableDesk ==
    /\ pc \in {"scan", "book_wait"} => BookRequests = BookableAmong(Taken)
    /\ (pc = "sleep" /\ reply.op = "bookDesk") =>
          /\ reply.code # SuccessCode
          /\ BookRequests = BookableAmong(Len(searched))

\* C12 witness: the second bookDesk request of one pass is in flight.
C12_Witness ==
    /\ pc = "book_wait"
    /\ BookRequests = 2
    /\ reply.op = "bookDesk"
    /\ reply.code # SuccessCode

\* C13: after a search answered with code 100 and no bookable desk (none at
\* all, or none with CanBeBooked) the attempt has ended like a refused one:
\* the date is at the tail of candidate_dates, one second is slept, and the
\* attempt has used one iteration.
C13_NothingBookableIsFailure ==
    (/\ pc \in {"sleep", "for"}
     /\ SearchAnswered
     /\ reply.code = SuccessCode
     /\ BookableAmong(Len(searched)) = 0)
    =>
        /\ outcome = "failed"
        /\ Requeued
        /\ slept = (IF pc = "sleep" THEN 0 ELSE SleepSeconds)
        /\ BookRequests = 0
        /\ log # Overflow => Len(log) = i

\* C13 witness: a list of desks none of which can be booked has been slept on.
C13_Witness ==
    /\ pc = "for"
    /\ SearchAnswered
    /\ reply.code = SuccessCode
    /\ Len(searched) = 2
    /\ BookableAmong(2) = 0
    /\ slept = SleepSeconds

\* C14: book_week runs at most 120 iterations with at most one attempt each,
\* and while dates are pending only the exhausted budget ends it.
C14_OnlyBudgetStops ==
    /\ i <= Budget
    /\ log # Overflow => Len(log) <= i
    /\ (pc \in {"done", "exit", "raised"} /\ candidate_dates # <<>>) =>
          (pc # "raised" /\ i = Budget /\ result = "False")

\* C15: with the budget exhausted and dates pending book_week has returned
\* False, main goes on to print the failure summary and returns; running out
\* of budget never raises.
C15_ExhaustionReported ==
    /\ (pc \in {"done", "exit"} /\ i = Budget /\ candidate_dates # <<>>) => result = "False"
    /\ (pc = "exit" /\ i = Budget /\ candidate_dates # <<>>) =>
          out[Len(out)] = FinishedFailLine
    /\ pc = "done" => ENABLED MainFinish
    /\ pc = "raised" => reply.kind = "unreadable"

\* C15 witness: main has returned after a run that left a date pending.
C15_Witness ==
    /\ pc = "exit"
    /\ i = Budget
    /\ candidate_dates # <<>>
    /\ result = "False"

\* C16: after a search answered with a code other than 100 the attempt has
\* ended with the failure line printed, no bookDesk request issued, and the
\* date at the tail of candidate_dates.
C16_RefusedSearchRequeued ==
    (/\ pc \in {"sleep", "for"}
     /\ SearchAnswered
     /\ reply.code # SuccessCode)
    =>
        /\ outcome = "failed"
        /\ out = <<BookingForLine, AppFailureLine>>
        /\ BookRequests = 0
        /\ Requeued

\* C16 witness: a search was refused and the date requeued.
C16_Witness ==
    /\ pc = "sleep"
    /\ SearchAnswered
    /\ reply.code = SuccessCode - 1
    /\ Requeued

\* C17: the desk of a bookDesk request is the desk the for loop has just
\* taken from the search result, its CanBeBooked flag is true, the requests
\* follow the order of the list, and the first request of a pass is for the
\* first desk of the list that can be booked.
C17_FirstBookableDeskFirst ==
    pc = "book_wait" =>
        /\ Taken \in 1..Len(searched)
        /\ searched[Taken].CanBeBooked
        /\ inflight[1].op = "bookDesk"
        /\ inflight[1].deskID = searched[Taken].DeskID
        /\ BookRequests = BookableAmong(Taken)
        /\ BookRequests = 1 => \A j \in 1..(Taken - 1) : ~searched[j].CanBeBooked

\* C17 witness: the first desk cannot be booked and the request is for the second.
C17_Witness ==
    /\ pc = "book_wait"
    /\ Len(searched) = 2
    /\ ~searched[1].CanBeBooked
    /\ inflight[1].deskID = searched[2].DeskID
    /\ BookRequests = 1

\* The verbs HTTP defines as idempotent.
IdempotentMethods == {"GET", "HEAD", "PUT", "DELETE", "OPTIONS", "TRACE"}

\* C18 as stated: a request is sent again at most 3 times, and one that
\* may have reached the server is sent again only if its verb is idempotent.
C18_RetryIdempotentOnly ==
    /\ httpRequest.retries <= 3
    /\ httpRequest.reads > 0 => httpRequest.method \in IdempotentMethods

\* C18 amended: a request is sent again at most 3 times, whatever its verb
\* among GET, PUT and POST (every verb the client sends, the non-idempotent
\* POST included), and a transport error surfaces only after the 3 retries.
C18_RetryEveryClientVerb ==
    /\ httpRequest.retries <= 3
    /\ httpRequest.reads <= httpRequest.retries
    /\ httpRequest.retries > 0 => httpRequest.method \in {"GET", "PUT", "POST"}
    /\ httpRequest.status = "raised" => httpRequest.retries = 3

\* C18 witness: a POST was sent again 3 times after read errors and the
\* error has surfaced.
C18_Witness ==
    /\ httpRequest.method = "POST"
    /\ httpRequest.reads = 3
    /\ httpRequest.status = "raised"

\* C19: the session's cookie jar is empty and no request carries a cookie.
C19_NoCookieKeptOrReplayed ==
    /\ session.cookies = {}
    /\ httpRequest.cookie = {}

\* C20: decode_jwt gives the same result for a good and a bad signature;
\* a token it returns the payload of has the eight required claims, the
\* issuer CondecoPasswordless, an exp after and an nbf not after the clock,
\* and a numeric iat if it has one, and its aud equals the audience argument
\* if one was given; without an audience argument no token is rejected for
\* its aud; and a token that meets all of this is not rejected.
C20_DecodeJwtValidates ==
    jwt.result.error # "not called" =>
        LET t == jwt.token
            r == jwt.result
            required == {"id", "username", "passwordless", "role", "iss", "aud", "exp", "nbf"}
            timely == /\ t.exp > jwt.now
                      /\ t.nbf <= jwt.now
        IN  /\ decode_jwt([t EXCEPT !.sig = "valid"], jwt.audience, jwt.now) = r
            /\ decode_jwt([t EXCEPT !.sig = "invalid"], jwt.audience, jwt.now) = r
            /\ r.error = "none" =>
                  /\ r.payload = Payload(t)
                  /\ required \subseteq t.keys
                  /\ t.iss = "CondecoPasswordless"
                  /\ timely
                  /\ "iat" \in t.keys => t.iatIsInt
                  /\ jwt.audience # "" => t.aud = jwt.audience
            /\ jwt.audience = "" => r.error # "InvalidAudienceError"
            /\ (/\ required \subseteq t.keys
                /\ t.iss = "CondecoPasswordless"
                /\ timely
                /\ "iat" \in t.keys => (t.iatIsInt /\ t.iat <= jwt.now)
                /\ jwt.audience # "" => t.aud = jwt.audience)
               => r.error = "none"

\* C20 witness: the payload of a token with a bad signature was returned,
\* no audience given.
C20_Witness ==
    /\ jwt.token.sig = "invalid"
    /\ jwt.audience = ""
    /\ jwt.token.aud = "web"
    /\ jwt.result.error = "none"
    /\ jwt.result.payload = Payload(jwt.token)

\* C22: at the start of every iteration candidate_dates and the dates booked
\* so far are disjoint, together they are the input dates, no date is in the
\* list twice; the list is as long as the input less the dates booked, and
\* the dates booked only grow, so its length never increases from one
\* iteration to the next.
C22_PendingAndBookedPartition ==
    /\ [](pc = "for" =>
            /\ Range(candidate_dates) \cap confirmed = {}
            /\ Range(candidate_dates) \cup confirmed = Range(input)
            /\ Cardinality(Range(candidate_dates)) = Len(candidate_dates)
            /\ Len(candidate_dates) = Len(input) - Cardinality(confirmed))
    /\ [][confirmed \subseteq confirmed']_vars

\* C22 witness: an iteration starts with one date booked and the other
\* requeued after a failure.
C22_Witness ==
    /\ pc = "for"
    /\ i < Budget
    /\ confirmed # {}
    /\ candidate_dates # <<>>
    /\ failsSince[candidate_dates[1]] >= 0

\* Attempts on date e logged strictly between the a-th and the b-th.
AttemptsBetween(a, b, e) == Cardinality({k \in (a + 1)..(b - 1) : log[k].date = e})

\* Date e was not booked by any of the first b - 1 attempts.
PendingBefore(b, e) == \A k \in 1..(b - 1) : ~(log[k].date = e /\ log[k].outcome = "booked")

\* The latest logged attempt on date e, 0 if there is none.
LatestAttempt(e) ==
    LET on == {k \in DOMAIN log : log[k].date = e}
    IN  IF on = {} THEN 0 ELSE CHOOSE k \in on : \A j \in on : j <= k

\* C23: between two consecutive attempts on one date every other input date
\* is attempted once if it is still pending and at most once otherwise; a
\* failed attempt leaves its date at the tail of candidate_dates; and a
\* pending date has seen at most one attempt on each other date since its own
\* latest attempt.
C23_RoundRobin ==
    /\ log # Overflow =>
          \A a, b \in DOMAIN log :
              (/\ a < b
               /\ log[a].date = log[b].date
               /\ AttemptsBetween(a, b, log[a].date) = 0)
              => \A e \in Range(input) \ {log[a].date} :
                    IF PendingBefore(b, e) THEN AttemptsBetween(a, b, e) = 1
                                           ELSE AttemptsBetween(a, b, e) <= 1
    /\ (pc \in {"sleep", "for"} /\ outcome \in {"failed", "connection_error"}) => Requeued
    /\ (log # Overflow /\ pc = "for") =>
          \A e \in Range(candidate_dates) :
              LatestAttempt(e) > 0 =>
                  Len(log) - LatestAttempt(e) <= Cardinality(Range(input)) - 1

\* C23 witness: the first date is attempted again after the second was.
C23_Witness ==
    /\ log # Overflow
    /\ Len(log) = 3
    /\ log[1].date = log[3].date
    /\ log[2].date # log[1].date
    /\ log[1].outcome = "failed"
    /\ log[2].outcome = "failed"

\* C25: when book_week has stopped, by a return or by an exception, every
\* input date not confirmed booked is in candidate_dates.
C25_UnbookedStillPending ==
    pc \in {"done", "exit", "raised"} =>
        \A d \in Range(input) \ confirmed : d \in Range(candidate_dates)

\* C26: within one pass at most one booking is confirmed; once a bookDesk
\* call is answered with ResponseCode 100 nothing is in flight, the for loop
\* over the desks is over and the iteration has ended with the date booked.
C26_OneSuccessPerPass ==
    /\ Printed(BookedLine) <= 1
    /\ pc \in {"scan", "book_wait"} => Printed(BookedLine) = 0
    /\ (reply.op = "bookDesk" /\ reply.kind = "response" /\ reply.code = SuccessCode) =>
          /\ pc \notin {"scan", "book_wait", "sleep", "raised"}
          /\ pc \in {"for", "done", "exit"} =>
                /\ outcome = "booked"
                /\ inflight = <<>>
                /\ desks = <<>>
                /\ Printed(BookedLine) = 1
                /\ \A j, k \in DOMAIN out :
                      (out[j] = BookedLine /\ out[k] = AttemptingLine) => k < j

\* C26 witness: the first of two bookable desks was booked and the second
\* was not requested.
C26_Witness ==
    /\ pc = "for"
    /\ outcome = "booked"
    /\ Len(searched) = 2
    /\ BookableAmong(2) = 2
    /\ BookRequests = 1
    /\ reply.code = SuccessCode

\* C27: a bookDesk request carries the day/month/year of the date popped in
\* this iteration, the string of the latest call before it, booking type
\* AllDay, and the DeskID of a desk of this iteration's search result; the
\* search result of one iteration is gone when the next date is popped.
C27_BookingMatchesPoppedDate ==
    /\ pc = "book_wait" =>
          /\ inflight[1].op = "bookDesk"
          /\ inflight[1].startDate =
                <<candidate_date.day, candidate_date.month, candidate_date.year>>
          /\ inflight[1].bookingType = BookingTypeAllDay
          /\ inflight[1].deskID \in {searched[k].DeskID : k \in DOMAIN searched}
          /\ reply.op \in {"searchDeskByFeatures", "bookDesk"}
          /\ reply.startDate = inflight[1].startDate
    /\ pc = "search_wait" =>
          inflight[1].startDate =
              <<candidate_date.day, candidate_date.month, candidate_date.year>>
    /\ pc \in {"book_single_day", "search_wait"} => searched = <<>>

\* C27 witness: in the second iteration a desk is requested for the second date.
C27_Witness ==
    /\ pc = "book_wait"
    /\ i = 2
    /\ candidate_date = DateOf(2)
    /\ inflight[1].startDate = <<4, 3, 2024>>
    /\ inflight[1].deskID = 2

\* C24: the service has accepted at most one bookDesk request for each date.
C24_AtMostOneAccepted ==
    \A d \in DOMAIN accepted : accepted[d] <= 1

\* The Authorization entries of a dict of headers.
Authorization(headers) == {h[2] : h \in {e \in headers : e[1] = "Authorization"}}

\* C30: Condeco.HEADERS is what the class defines, with no Authorization
\* entry; a request of a method called with an access token carries the
\* bearer token of that call and no other, and a request of a method without
\* one carries no Authorization entry.
C30_HeadersNeverMutated ==
    /\ HEADERS = {<<"User-Agent", "okhttp/4.10.0">>, <<"Accept", "application/json">>}
    /\ Authorization(HEADERS) = {}
    /\ httpRequest.status # "none" =>
          /\ Authorization(httpRequest.headers) =
                (IF httpRequest.access_token = "" THEN {}
                 ELSE {<<"Bearer", httpRequest.access_token>>})
          /\ httpRequest.previous # httpRequest.access_token =>
                <<"Bearer", httpRequest.previous>> \notin Authorization(httpRequest.headers)

\* C30 witness: a method without an access token sends its request after a
\* call with one.
C30_Witness ==
    /\ httpRequest.status = "sent"
    /\ httpRequest.previous = "tokenA"
    /\ httpRequest.access_token = ""
    /\ httpRequest.headers = HEADERS

\* C21: whatever today's date, main's list holds two dates: first the Friday,
\* then the Monday; the Monday is a Monday 15 to 21 days after today, three
\* weeks after the Monday of today's week, and the Friday is 4 days after
\* it; both are dates of the calendar; the first pop of book_week takes the
\* Friday.  On 2024-02-14 the list is [2024-03-08, 2024-03-04].
C21_TargetDates ==
    pc # "main" =>
        LET friday == input[1]
            monday == input[2]
            t == toordinal(today)
        IN  /\ Len(input) = 2
            /\ weekday(Date(2024, 3, 4)) = 0
            /\ weekday(monday) = 0
            /\ toordinal(monday) - t \in 15..21
            /\ toordinal(monday) - 21 \in (t - 6)..t
            /\ toordinal(friday) = toordinal(monday) + 4
            /\ \A d \in {friday, monday} :
                  /\ d.month \in 1..12
                  /\ d.day \in 1..DaysInMonth(d.year, d.month)
                  /\ fromordinal(toordinal(d)) = d
            /\ today = Date(2024, 2, 14) => input = <<Date(2024, 3, 8), Date(2024, 3, 4)>>
            /\ pc \in {"decode_jwt", "for", "rejected"} => candidate_dates = input
            /\ pc = "book_single_day" =>
                  /\ candidate_date = friday
                  /\ candidate_dates = <<monday>>

\* C21 witness: run on Sunday 2023-12-17, the first date attempted is Friday
\* 2024-01-05, 19 days later and in the next year.
C21_Witness ==
    /\ pc = "book_single_day"
    /\ today = Date(2023, 12, 17)
    /\ weekday(today) = 6
    /\ candidate_date = Date(2024, 1, 5)
    /\ candidate_dates = <<Date(2024, 1, 1)>>

\* C28: a search or booking request has been issued only after decode_jwt
\* returned the payload of the configured token; when decode_jwt raised, main
\* has stopped for good with book_week not started and no request of any kind
\* issued.
C28_NoRequestBeforeTokenAccepted ==
    /\ ((issued \cap {"searchDeskByFeatures", "bookDesk"}) # {} \/ inflight # <<>> \/ i > 0) =>
          /\ jwt.result.error = "none"
          /\ jwt.token = configuration.token[1]
    /\ pc = "rejected" =>
          /\ jwt.result.error \notin {"none", "not called"}
          /\ issued = {}
          /\ inflight = <<>>
          /\ i = 0
          /\ candidate_dates = input
          /\ ~ENABLED NextMain

\* C28 witness: main has stopped on an expired token.
C28_Witness ==
    /\ pc = "rejected"
    /\ jwt.result.error = "ExpiredSignatureError"
    /\ issued = {}

\* C29: with a token configured only search and booking requests are issued;
\* with no token and a validation key only loginWithMagicLink, once; with
\* neither only sendMagicLink, once; and the magic-link branches neither
\* decode a token nor start book_week.
C29_OneBranch ==
    /\ configuration.token # <<>> => issued \subseteq {"searchDeskByFeatures", "bookDesk"}
    /\ configuration.token = <<>> =>
          /\ pc \in {"main", "exit"}
          /\ i = 0
          /\ jwt = NoJwt
          /\ issued = (IF pc = "main" THEN {}
                       ELSE IF configuration.validation_key # "" THEN {"loginWithMagicLink"}
                       ELSE {"sendMagicLink"})
    /\ pc = "main" =>
          /\ ENABLED MainDates <=> configuration.token # <<>>
          /\ ENABLED MainLogin <=> (configuration.token = <<>> /\ configuration.validation_key # "")
          /\ ENABLED MainSend <=> (configuration.token = <<>> /\ configuration.validation_key = "")

\* C29 witness: a token and a validation key are configured and a desk is
\* being booked.
C29_Witness ==
    /\ configuration.token # <<>>
    /\ configuration.validation_key # ""
    /\ pc = "book_wait"
    /\ issued = {"searchDeskByFeatures", "bookDesk"}

====
